---- MODULE Spec2Model ----
(***************************************************************************)
(* A model of the snmp-agent core: the request resolver of                 *)
(* snmp_agent/utils.py (get, get_next, get_bulk, handle_request) over a    *)
(* heap of VariableBinding objects, and the envelope checks of             *)
(* snmp_agent/snmp.py decode_request (version, community, PDU tag).        *)
(*                                                                         *)
(* An OID is the Python string held by VariableBinding.oid, written here   *)
(* as the sequence of its dot-separated components, each component the     *)
(* sequence of its decimal digits: "1.10" is << <<1>>, <<1, 0>> >>.        *)
(* A VariableBinding is a heap object [oid, value]; lists hold references  *)
(* (heap indices), so that aliasing between the table, the request and the *)
(* results is visible.                                                     *)
(***************************************************************************)
EXTENDS Integers, Sequences, FiniteSets, TLC

VARIABLES
    heap,          \* the VariableBinding objects, by reference (snmp.py 484-487)
    vbs,           \* handle_request's vbs: the caller's binding table, a list of references
    req,           \* handle_request's req: the SNMPRequest (snmp.py 430-447)
    pc,            \* the control position of the resolver or of the decoder
    results,       \* the results list of get / get_next / get_bulk
    tail_req_vbs,  \* get_bulk's local _req_vbs after line 65 (the tail)
    rep,           \* completed passes of get_bulk's loop over range(max_repetitions)
    index,         \* get_bulk's index into _req_vbs, counted from 1
    prev_results,  \* the list the caller's previous resolve call returned
    calls,         \* the number of the caller's current resolve call
    data,          \* decode_request's datagram
    decoded,       \* the SNMPRequest decode_request returned
    error          \* the exception decode_request raised, or "none"

vars == <<heap, vbs, req, pc, results, tail_req_vbs, rep, index,
          prev_results, calls, data, decoded, error>>

decoder_vars == <<data, decoded, error>>

(***************************************************************************)
(* Bounds of the model.                                                    *)
(***************************************************************************)
MaxTable == 2
MaxReq == 2
MaxRep == 2

(***************************************************************************)
(* ASN.1 tags and SNMP version codes (snmp.py).                            *)
(***************************************************************************)
V1 == 0
V2C == 1
INTEGER == 2
OCTET_STRING == 4
NULL == 5
SEQUENCE == 48
NO_SUCH_OBJECT == 128
END_OF_MIB_VIEW == 130
GET_REQUEST == 160
GET_NEXT_REQUEST == 161
GET_RESPONSE == 162
SET_REQUEST == 163
GET_BULK_REQUEST == 165

VERSION == {V1, V2C}

ASN1 == {1, INTEGER, OCTET_STRING, NULL, 6, SEQUENCE, 64, 65, 66, 67, 70,
         NO_SUCH_OBJECT, 129, END_OF_MIB_VIEW,
         GET_REQUEST, GET_NEXT_REQUEST, GET_RESPONSE, SET_REQUEST,
         GET_BULK_REQUEST}

(***************************************************************************)
(* SNMP leaf values: tag and payload.                                      *)
(***************************************************************************)
Integer(n) == [tag |-> INTEGER, value |-> n]
OctetString(n) == [tag |-> OCTET_STRING, value |-> n]
Null == [tag |-> NULL, value |-> 0]
NoSuchObject == [tag |-> NO_SUCH_OBJECT, value |-> 0]
EndOfMibView == [tag |-> END_OF_MIB_VIEW, value |-> 0]

VariableBinding(oid, value) == [oid |-> oid, value |-> value]

(***************************************************************************)
(* The OID strings the model draws from: "1", "1.2" and "1.10".            *)
(***************************************************************************)
OidSet == { << <<1>> >>, << <<1>>, <<2>> >>, << <<1>>, <<1, 0>> >> }

RECURSIVE SeqsUpTo(_, _)
SeqsUpTo(S, n) ==
    IF n = 0 THEN {<<>>}
    ELSE LET shorter == SeqsUpTo(S, n - 1)
         IN shorter \cup {Append(s, x) : s \in {t \in shorter : Len(t) = n - 1}, x \in S}

(***************************************************************************)
(* int(o) for a component string o of decimal digits.                      *)
(***************************************************************************)
RECURSIVE int(_)
int(digits) ==
    IF digits = <<>> THEN 0
    ELSE 10 * int(SubSeq(digits, 1, Len(digits) - 1)) + digits[Len(digits)]

(* The sort and comparison key [int(o) for o in oid.split(".")]. *)
oid_key(oid) == [i \in 1..Len(oid) |-> int(oid[i])]

(* Python's list comparison a < b on lists of integers. *)
list_lt(a, b) ==
    LET n == IF Len(a) < Len(b) THEN Len(a) ELSE Len(b)
        diff == {i \in 1..n : a[i] # b[i]}
    IN IF diff = {} THEN Len(a) < Len(b)
       ELSE LET i == CHOOSE j \in diff : \A k \in diff : j <= k
            IN a[i] < b[i]

(* The test of get_next's inner loop: key(req_vb.oid) < key(vb.oid). *)
oid_lt_mutant_le(a, b) == ~list_lt(oid_key(b), oid_key(a))
oid_lt(a, b) == list_lt(oid_key(a), oid_key(b))

(***************************************************************************)
(* sorted(vbs, key=...): a stable sort of the references by oid key.       *)
(***************************************************************************)
RECURSIVE insert_sorted(_, _, _)
insert_sorted(h, s, r) ==
    IF s = <<>> THEN <<r>>
    ELSE IF list_lt(oid_key(h[r].oid), oid_key(h[Head(s)].oid))
         THEN <<r>> \o s
         ELSE <<Head(s)>> \o insert_sorted(h, Tail(s), r)

RECURSIVE sort_prefix(_, _, _)
sort_prefix(h, t, n) ==
    IF n = 0 THEN <<>> ELSE insert_sorted(h, sort_prefix(h, t, n - 1), t[n])

sorted(h, t) == sort_prefix(h, t, Len(t))

(***************************************************************************)
(* Python slices req_vbs[:n] and req_vbs[n:] for n >= 0: fresh lists.      *)
(***************************************************************************)
slice_to(s, n) == SubSeq(s, 1, IF n < Len(s) THEN n ELSE Len(s))
slice_from(s, n) == SubSeq(s, n + 1, Len(s))

(***************************************************************************)
(* get (utils.py): st is [heap, results]; a match returns the table's own  *)
(* object, a miss allocates a new VariableBinding.                         *)
(***************************************************************************)
get_matches_mutant_reversed(h, t, req_vb) ==
    LET m == SelectSeq(t, LAMBDA r : h[req_vb].oid = h[r].oid)
    IN [i \in 1..Len(m) |-> m[Len(m) + 1 - i]]
get_matches(h, t, req_vb) == SelectSeq(t, LAMBDA r : h[req_vb].oid = h[r].oid)

RECURSIVE get_loop(_, _, _, _)
get_loop(st, req_vbs, t, i) ==
    IF i > Len(req_vbs) THEN st
    ELSE LET req_vb == req_vbs[i]
             matches == get_matches(st.heap, t, req_vb)
         IN IF matches # <<>>
            THEN get_loop([heap |-> st.heap,
                           results |-> Append(st.results, matches[1])],
                          req_vbs, t, i + 1)
            ELSE LET h2 == Append(st.heap,
                                  VariableBinding(st.heap[req_vb].oid, NoSuchObject))
                 IN get_loop([heap |-> h2, results |-> Append(st.results, Len(h2))],
                             req_vbs, t, i + 1)

get(h, req_vbs, t) == get_loop([heap |-> h, results |-> <<>>], req_vbs, t, 1)

(***************************************************************************)
(* get_next (utils.py): next_vb is a new object; its oid and value are     *)
(* overwritten from the first sorted entry greater than the request oid.   *)
(***************************************************************************)
RECURSIVE next_vb(_, _, _)
next_vb(h, sorted_vbs, req_vb) ==
    IF sorted_vbs = <<>> THEN VariableBinding(h[req_vb].oid, EndOfMibView)
    ELSE LET vb == Head(sorted_vbs)
         IN IF oid_lt(h[req_vb].oid, h[vb].oid)
            THEN VariableBinding(h[vb].oid, h[vb].value)
            ELSE next_vb(h, Tail(sorted_vbs), req_vb)

RECURSIVE get_next_loop(_, _, _, _)
get_next_loop(st, req_vbs, sorted_vbs, i) ==
    IF i > Len(req_vbs) THEN st
    ELSE LET h2 == Append(st.heap, next_vb(st.heap, sorted_vbs, req_vbs[i]))
         IN get_next_loop([heap |-> h2, results |-> Append(st.results, Len(h2))],
                          req_vbs, sorted_vbs, i + 1)

(* The list passed to sorted() afterwards: sorted() builds a new list. *)
sorted_argument_mutant_in_place(h, t) == sorted(h, t)
sorted_argument(h, t) == t

(* st is [heap, results]; vbs is the caller's table list after the call. *)
get_next(h, req_vbs, t) ==
    LET st == get_next_loop([heap |-> h, results |-> <<>>], req_vbs, sorted(h, t), 1)
    IN [heap |-> st.heap, results |-> st.results, vbs |-> sorted_argument(h, t)]

(***************************************************************************)
(* The state after construction: the caller's binding table (entry i       *)
(* carries the value Integer(i)) and a request as decode_request builds    *)
(* it (fresh VariableBindings with value Null; non_repeaters and           *)
(* max_repetitions are 0 unless the request is a GetBulk).                 *)
(***************************************************************************)
NoData == [version |-> 0, community |-> <<>>, tag |-> 0]
NoRequest == [version |-> 0, community |-> <<>>, context |-> 0]
NoError == "none"

Requests ==
    {[context |-> c, non_repeaters |-> 0, max_repetitions |-> 0, oids |-> o] :
        c \in {GET_REQUEST, GET_NEXT_REQUEST}, o \in SeqsUpTo(OidSet, MaxReq)}
    \cup
    {[context |-> GET_BULK_REQUEST, non_repeaters |-> n, max_repetitions |-> r,
      oids |-> o] :
        n \in 0..(MaxReq + 1), r \in 0..MaxRep, o \in SeqsUpTo(OidSet, MaxReq)}

Init ==
    \E t \in SeqsUpTo(OidSet, MaxTable), q \in Requests :
        /\ heap = [i \in 1..Len(t) |-> VariableBinding(t[i], Integer(i))]
                  \o [i \in 1..Len(q.oids) |-> VariableBinding(q.oids[i], Null)]
        /\ vbs = [i \in 1..Len(t) |-> i]
        /\ req = [context |-> q.context,
                  non_repeaters |-> q.non_repeaters,
                  max_repetitions |-> q.max_repetitions,
                  variable_bindings |-> [i \in 1..Len(q.oids) |-> Len(t) + i]]
        /\ pc = "handle_request"
        /\ results = <<>>
        /\ tail_req_vbs = <<>>
        /\ rep = 0
        /\ index = 1
        /\ prev_results = <<>>
        /\ calls = 1
        /\ data = NoData
        /\ decoded = NoRequest
        /\ error = NoError

(***************************************************************************)
(* handle_request (utils.py): dispatch on the request's context.           *)
(***************************************************************************)
handle_get ==
    /\ pc = "handle_request"
    /\ req.context = GET_REQUEST
    /\ LET st == get(heap, req.variable_bindings, vbs)
       IN /\ heap' = st.heap
          /\ results' = st.results
    /\ pc' = "return"
    /\ UNCHANGED <<vbs, req, tail_req_vbs, rep, index, prev_results, calls>>
    /\ UNCHANGED decoder_vars

handle_get_next ==
    /\ pc = "handle_request"
    /\ req.context = GET_NEXT_REQUEST
    /\ LET st == get_next(heap, req.variable_bindings, vbs)
       IN /\ heap' = st.heap
          /\ results' = st.results
          /\ vbs' = st.vbs
    /\ pc' = "return"
    /\ UNCHANGED <<req, tail_req_vbs, rep, index, prev_results, calls>>
    /\ UNCHANGED decoder_vars

(***************************************************************************)
(* get_bulk (utils.py), lines 62-65: the non-repeaters pass and the        *)
(* private copy of the tail.                                               *)
(***************************************************************************)
bulk_tail_mutant_drop_first(req_vbs, n) == slice_from(req_vbs, n + 1)
bulk_tail(req_vbs, n) == slice_from(req_vbs, n)

get_bulk_head ==
    /\ pc = "handle_request"
    /\ req.context = GET_BULK_REQUEST
    /\ LET st == get_next(heap, slice_to(req.variable_bindings, req.non_repeaters), vbs)
       IN /\ heap' = st.heap
          /\ results' = st.results
          /\ vbs' = st.vbs
    /\ tail_req_vbs' = bulk_tail(req.variable_bindings, req.non_repeaters)
    /\ rep' = 0
    /\ index' = 1
    /\ pc' = "get_bulk"
    /\ UNCHANGED <<req, prev_results, calls>>
    /\ UNCHANGED decoder_vars

(***************************************************************************)
(* get_bulk, lines 66-71: one pass of the inner loop body, for repetition  *)
(* rep + 1 and tail slot index, with the advance of both loops.            *)
(***************************************************************************)
bulk_continue_from_mutant_request(h, result, req_vb) == h[req_vb].oid
bulk_continue_from(h, result, req_vb) == h[result].oid

(* The request's own list after the store _req_vbs[index] = ...: _req_vbs *)
(* is the slice req_vbs[non_repeaters:], a list of its own.               *)
tail_store_mutant_aliased(req_vbs, n, i, ref) == [req_vbs EXCEPT ![n + i] = ref]
tail_store(req_vbs, n, i, ref) == req_vbs

get_bulk_step ==
    /\ pc = "get_bulk"
    /\ rep < req.max_repetitions
    /\ index <= Len(tail_req_vbs)
    /\ LET req_vb == tail_req_vbs[index]
           st == get_next(heap, <<req_vb>>, vbs)
           result == st.results[1]
           h2 == Append(st.heap,
                        VariableBinding(bulk_continue_from(st.heap, result, req_vb), Null))
       IN /\ heap' = h2
          /\ results' = Append(results, result)
          /\ vbs' = st.vbs
          /\ tail_req_vbs' = [tail_req_vbs EXCEPT ![index] = Len(h2)]
          /\ req' = [req EXCEPT !.variable_bindings =
                        tail_store(@, req.non_repeaters, index, Len(h2))]
    /\ IF index = Len(tail_req_vbs)
       THEN rep' = rep + 1 /\ index' = 1
       ELSE rep' = rep /\ index' = index + 1
    /\ UNCHANGED <<pc, prev_results, calls>>
    /\ UNCHANGED decoder_vars

get_bulk_return ==
    /\ pc = "get_bulk"
    /\ \/ rep = req.max_repetitions
       \/ tail_req_vbs = <<>>
    /\ pc' = "return"
    /\ UNCHANGED <<heap, vbs, req, results, tail_req_vbs, rep, index, prev_results, calls>>
    /\ UNCHANGED decoder_vars

(***************************************************************************)
(* The caller of the resolver: it may resolve the same request against the *)
(* same table once more, or write to a slot of a VariableBinding it was    *)
(* handed back.                                                            *)
(***************************************************************************)
CallerOid == << <<1>>, <<1, 0>> >>
CallerValue == OctetString(0)

resolve_again ==
    /\ pc = "return"
    /\ calls = 1
    /\ prev_results' = results
    /\ results' = <<>>
    /\ tail_req_vbs' = <<>>
    /\ rep' = 0
    /\ index' = 1
    /\ calls' = 2
    /\ pc' = "handle_request"
    /\ UNCHANGED <<heap, vbs, req>>
    /\ UNCHANGED decoder_vars

caller_writes_oid ==
    /\ pc = "return"
    /\ \E i \in 1..Len(results) :
          heap' = [heap EXCEPT ![results[i]].oid = CallerOid]
    /\ pc' = "caller_wrote"
    /\ UNCHANGED <<vbs, req, results, tail_req_vbs, rep, index, prev_results, calls>>
    /\ UNCHANGED decoder_vars

caller_writes_value ==
    /\ pc = "return"
    /\ \E i \in 1..Len(results) :
          heap' = [heap EXCEPT ![results[i]].value = CallerValue]
    /\ pc' = "caller_wrote"
    /\ UNCHANGED <<vbs, req, results, tail_req_vbs, rep, index, prev_results, calls>>
    /\ UNCHANGED decoder_vars

Next ==
    \/ handle_get
    \/ handle_get_next
    \/ get_bulk_head
    \/ get_bulk_step
    \/ get_bulk_return
    \/ resolve_again
    \/ caller_writes_oid
    \/ caller_writes_value

Spec == Init /\ [][Next]_vars

(***************************************************************************)
(* decode_request (snmp.py).  A datagram is taken as already split into    *)
(* its BER elements: the version integer, the community octets, the tag    *)
(* octet (cls | typ | nr) of the inner element, the three integers of the  *)
(* PDU and the OID strings of its variable bindings.                       *)
(***************************************************************************)

(* bytes.decode(): strict UTF-8, giving the code points or a failure. *)
cont(b) == b >= 128 /\ b <= 191

RECURSIVE utf8_decode(_)
utf8_decode(b) ==
    IF b = <<>> THEN [ok |-> TRUE, text |-> <<>>]
    ELSE LET b1 == b[1]
             n == IF b1 < 128 THEN 1
                  ELSE IF b1 >= 194 /\ b1 <= 223 THEN 2
                  ELSE IF b1 >= 224 /\ b1 <= 239 THEN 3
                  ELSE IF b1 >= 240 /\ b1 <= 244 THEN 4
                  ELSE 0
             lo2 == IF b1 = 224 THEN 160 ELSE IF b1 = 240 THEN 144 ELSE 128
             hi2 == IF b1 = 237 THEN 159 ELSE IF b1 = 244 THEN 143 ELSE 191
             wellformed ==
                /\ n > 0
                /\ Len(b) >= n
                /\ n >= 2 => (b[2] >= lo2 /\ b[2] <= hi2)
                /\ \A i \in 3..n : cont(b[i])
             lead == IF n = 1 THEN b1
                     ELSE IF n = 2 THEN b1 - 192
                     ELSE IF n = 3 THEN b1 - 224
                     ELSE b1 - 240
             point == IF n = 1 THEN lead
                      ELSE IF n = 2 THEN lead * 64 + (b[2] - 128)
                      ELSE IF n = 3 THEN (lead * 64 + (b[2] - 128)) * 64 + (b[3] - 128)
                      ELSE ((lead * 64 + (b[2] - 128)) * 64 + (b[3] - 128)) * 64
                           + (b[4] - 128)
         IN IF ~wellformed THEN [ok |-> FALSE, text |-> <<>>]
            ELSE LET rest == utf8_decode(SubSeq(b, n + 1, Len(b)))
                 IN [ok |-> rest.ok, text |-> IF rest.ok THEN <<point>> \o rest.text
                                              ELSE <<>>]

(* Calling an Enum class with a value: ValueError when it is no member. *)
enum_call(members, code) == IF code \in members THEN "none" ELSE "ValueError"

(* Subscripting the dict _TAG_2_CONEXT: KeyError when the key is absent. *)
TAG_2_CONEXT == {GET_REQUEST, GET_NEXT_REQUEST, GET_BULK_REQUEST}
dict_getitem(keys, key) == IF key \in keys THEN "none" ELSE "KeyError"

(* try: ... except KeyError: raise NotImplementedError(message). *)
except_KeyError(raised, message) ==
    IF raised = "KeyError" THEN "NotImplementedError: " \o message ELSE raised

UNSUPPORTED_VERSION == "NotImplementedError: SNMP Version code"
UNSUPPORTED_PDU == "NotImplementedError: PDU-TYPE code"

(* The exception decode_request raises on datagram d, or "none". *)
decode_error(d) ==
    LET version_raised == except_KeyError(enum_call(VERSION, d.version),
                                          "SNMP Version code")
        community == utf8_decode(d.community)
        pdu_type_raised == enum_call(ASN1, d.tag)
        context_raised == except_KeyError(dict_getitem(TAG_2_CONEXT, d.tag),
                                          "PDU-TYPE code")
    IN IF version_raised # "none" THEN version_raised
       ELSE IF ~community.ok THEN "UnicodeDecodeError"
       ELSE IF pdu_type_raised # "none" THEN pdu_type_raised
       ELSE context_raised

(* The SNMPRequest decode_request returns when nothing is raised. *)
decode_value(d) ==
    [version |-> d.version,
     community |-> utf8_decode(d.community).text,
     context |-> d.tag,
     request_id |-> d.request_id,
     non_repeaters |-> IF d.tag = GET_BULK_REQUEST THEN d.int2 ELSE 0,
     max_repetitions |-> IF d.tag = GET_BULK_REQUEST THEN d.int3 ELSE 0,
     variable_bindings |-> [i \in 1..Len(d.oids) |-> VariableBinding(d.oids[i], Null)]]

VersionCodes == {0, 1, 2, 3}
Communities == { <<112>>, <<195, 169>>, <<255>>, <<195>> }
PduTags == {SEQUENCE, GET_REQUEST, GET_NEXT_REQUEST, GET_RESPONSE, SET_REQUEST,
            164, GET_BULK_REQUEST, 166}

Datagrams ==
    [version : VersionCodes, community : Communities, tag : PduTags,
     request_id : {42}, int2 : {0, 1}, int3 : {0, 2},
     oids : SeqsUpTo(OidSet, 1)]

InitDecode ==
    /\ heap = <<>>
    /\ vbs = <<>>
    /\ req = [context |-> 0, non_repeaters |-> 0, max_repetitions |-> 0,
              variable_bindings |-> <<>>]
    /\ pc = "listen"
    /\ results = <<>>
    /\ tail_req_vbs = <<>>
    /\ rep = 0
    /\ index = 1
    /\ prev_results = <<>>
    /\ calls = 0
    /\ data = NoData
    /\ decoded = NoRequest
    /\ error = NoError

receive ==
    /\ pc = "listen"
    /\ \E d \in Datagrams : data' = d
    /\ pc' = "decode_request"
    /\ UNCHANGED <<decoded, error>>
    /\ UNCHANGED <<heap, vbs, req, results, tail_req_vbs, rep, index, prev_results, calls>>

decode_request ==
    /\ pc = "decode_request"
    /\ error' = decode_error(data)
    /\ decoded' = IF decode_error(data) = NoError THEN decode_value(data) ELSE NoRequest
    /\ pc' = "decoded"
    /\ UNCHANGED data
    /\ UNCHANGED <<heap, vbs, req, results, tail_req_vbs, rep, index, prev_results, calls>>

next_datagram ==
    /\ pc = "decoded"
    /\ data' = NoData
    /\ decoded' = NoRequest
    /\ error' = NoError
    /\ pc' = "listen"
    /\ UNCHANGED <<heap, vbs, req, results, tail_req_vbs, rep, index, prev_results, calls>>

NextDecode ==
    \/ receive
    \/ decode_request
    \/ next_datagram

DecodeSpec == InitDecode /\ [][NextDecode]_vars

(***************************************************************************)
(* Vocabulary of the properties: the component-wise lexicographic order on *)
(* OIDs, and the successor of an OID in the binding table.                 *)
(***************************************************************************)
RECURSIVE Pow10(_)
Pow10(n) == IF n = 0 THEN 1 ELSE 10 * Pow10(n - 1)

RECURSIVE Num(_)
Num(c) == IF c = <<>> THEN 0 ELSE c[1] * Pow10(Len(c) - 1) + Num(Tail(c))

RECURSIVE LexLess(_, _)
LexLess(a, b) ==
    IF a = <<>> THEN b # <<>>
    ELSE IF b = <<>> THEN FALSE
    ELSE IF Num(a[1]) # Num(b[1]) THEN Num(a[1]) < Num(b[1])
    ELSE LexLess(Tail(a), Tail(b))

K == Len(req.variable_bindings)
HeadLen == IF req.non_repeaters < K THEN req.non_repeaters ELSE K
TailLen == K - HeadLen
ReqOid(i) == heap[req.variable_bindings[i]].oid
Entry(k) == heap[vbs[k]]
TableRefs == {vbs[k] : k \in 1..Len(vbs)}
Contents(s) == [i \in 1..Len(s) |-> heap[s[i]]]
Greater(o) == {k \in 1..Len(vbs) : LexLess(o, Entry(k).oid)}

IsNextOf(vb, o) ==
    IF Greater(o) = {} THEN vb = VariableBinding(o, EndOfMibView)
    ELSE /\ \E k \in 1..Len(vbs) : Entry(k) = vb
         /\ LexLess(o, vb.oid)
         /\ \A k \in 1..Len(vbs) :
               ~(LexLess(o, Entry(k).oid) /\ LexLess(Entry(k).oid, vb.oid))

NextOid(o) ==
    IF Greater(o) = {} THEN o
    ELSE Entry(CHOOSE k \in Greater(o) :
                  \A j \in Greater(o) : ~LexLess(Entry(j).oid, Entry(k).oid)).oid

RECURSIVE IterNextOid(_, _)
IterNextOid(o, r) == IF r = 0 THEN o ELSE NextOid(IterNextOid(o, r - 1))

Resolving == pc \in {"handle_request", "get_bulk"}

(***************************************************************************)
(* C1: when get_next has returned, there is one result per request VB, in  *)
(* request order; result i is an entry of the table whose OID is strictly  *)
(* greater than request OID i with no table OID strictly between the two,  *)
(* or (request OID i, EndOfMibView) when the table has no greater OID.     *)
(***************************************************************************)
C1_GetNextCorrect ==
    (pc = "return" /\ req.context = GET_NEXT_REQUEST) =>
        /\ Len(results) = K
        /\ \A i \in 1..K : IsNextOf(heap[results[i]], ReqOid(i))

C1_Witness ==
    /\ pc = "return"
    /\ req.context = GET_NEXT_REQUEST
    /\ K = 2
    /\ heap[results[1]].value = Integer(2)
    /\ Cardinality(Greater(ReqOid(1))) = 2
    /\ heap[results[2]] = VariableBinding(ReqOid(2), EndOfMibView)

(***************************************************************************)
(* C2: when get has returned, there is one result per request VB, in       *)
(* request order; result i is (request OID i, v) for the first table entry *)
(* in table order with that OID, and (request OID i, NoSuchObject) exactly *)
(* when no table entry has that OID.                                       *)
(***************************************************************************)
C2_GetCorrect ==
    (pc = "return" /\ req.context = GET_REQUEST) =>
        /\ Len(results) = K
        /\ \A i \in 1..K :
              LET same == {k \in 1..Len(vbs) : Entry(k).oid = ReqOid(i)}
                  vb == heap[results[i]]
              IN /\ vb.oid = ReqOid(i)
                 /\ (vb.value = NoSuchObject) <=> (same = {})
                 /\ same # {} =>
                       vb = Entry(CHOOSE k \in same : \A j \in same : k <= j)

C2_Witness ==
    /\ pc = "return"
    /\ req.context = GET_REQUEST
    /\ K = 2
    /\ Len(vbs) = 2
    /\ Entry(1).oid = Entry(2).oid
    /\ heap[results[1]] = Entry(1)
    /\ heap[results[2]].value = NoSuchObject

(***************************************************************************)
(* C3, as claimed: when get_bulk has returned for non_repeaters N,         *)
(* max_repetitions R and K request VBs, it has N + R * (K - N) results.    *)
(***************************************************************************)
C3_BulkLengthAsClaimed ==
    (pc = "return" /\ req.context = GET_BULK_REQUEST) =>
        Len(results) = req.non_repeaters
                       + req.max_repetitions * (K - req.non_repeaters)

(***************************************************************************)
(* C3, amended: with H = min(N, K), get_bulk returns H + R * (K - H)       *)
(* results: the H GetNext results of the head VBs in order, then R blocks  *)
(* of K - H results, where entry j of block r is at the OID reached by r   *)
(* successor steps from the j-th tail OID.                                 *)
(***************************************************************************)
C3_BulkLayout ==
    (pc = "return" /\ req.context = GET_BULK_REQUEST) =>
        /\ Len(results) = HeadLen + req.max_repetitions * TailLen
        /\ \A i \in 1..HeadLen : IsNextOf(heap[results[i]], ReqOid(i))
        /\ \A r \in 1..req.max_repetitions : \A j \in 1..TailLen :
              heap[results[HeadLen + (r - 1) * TailLen + j]].oid
                  = IterNextOid(ReqOid(HeadLen + j), r)

C3_Witness ==
    /\ pc = "return"
    /\ req.context = GET_BULK_REQUEST
    /\ req.non_repeaters = 1
    /\ req.max_repetitions = 2
    /\ K = 2
    /\ Len(results) = 3
    /\ heap[results[2]].oid # heap[results[3]].oid

(***************************************************************************)
(* C4: throughout get_bulk, every emitted tail entry is the single GetNext *)
(* step from the request's tail OID (repetition 1) or from the OID emitted *)
(* for the same tail index one repetition earlier; after an EndOfMibView   *)
(* the same index emits the same EndOfMibView binding again; and the call  *)
(* returns only after all max_repetitions repetitions.                     *)
(***************************************************************************)
C4_BulkChain ==
    (pc \in {"get_bulk", "return"} /\ req.context = GET_BULK_REQUEST) =>
        /\ \A p \in (HeadLen + 1)..Len(results) :
              LET q == p - HeadLen
                  from == IF q <= TailLen THEN ReqOid(HeadLen + q)
                          ELSE heap[results[p - TailLen]].oid
              IN /\ IsNextOf(heap[results[p]], from)
                 /\ (q > TailLen /\ heap[results[p - TailLen]].value = EndOfMibView)
                       => heap[results[p]] = heap[results[p - TailLen]]
        /\ pc = "get_bulk" =>
              /\ Len(results) = HeadLen + rep * TailLen + (index - 1)
              /\ \A j \in 1..TailLen :
                    heap[tail_req_vbs[j]].oid =
                        IF rep = 0 /\ j >= index THEN ReqOid(HeadLen + j)
                        ELSE heap[results[HeadLen + (IF j < index THEN rep ELSE rep - 1)
                                                      * TailLen + j]].oid
        /\ (pc = "return" /\ TailLen > 0) => rep = req.max_repetitions

C4_Witness ==
    /\ pc = "return"
    /\ req.context = GET_BULK_REQUEST
    /\ req.non_repeaters = 0
    /\ req.max_repetitions = 2
    /\ K = 2
    /\ heap[results[1]].value = Integer(2)
    /\ heap[results[3]].value = Integer(1)
    /\ heap[results[2]].value = EndOfMibView
    /\ heap[results[4]] = heap[results[2]]

(***************************************************************************)
(* C5: no step of handle_request / get / get_next / get_bulk changes the   *)
(* caller's binding table: the list keeps its length and its entries in    *)
(* order, and every entry keeps its oid and value.                         *)
(***************************************************************************)
C5_TableUnchanged ==
    [][Resolving =>
          /\ vbs' = vbs
          /\ \A k \in 1..Len(vbs) : heap'[vbs[k]] = heap[vbs[k]]]_vars

C5_Witness ==
    /\ pc = "return"
    /\ req.context \in {GET_NEXT_REQUEST, GET_BULK_REQUEST}
    /\ Len(vbs) = 2
    /\ LexLess(Entry(2).oid, Entry(1).oid)
    /\ \E i \in 1..Len(results) : heap[results[i]] = Entry(2)

(***************************************************************************)
(* C6, as claimed: no VariableBinding returned by a call is an entry       *)
(* object of the table or a VariableBinding an earlier call returned, and  *)
(* a write by the caller to the oid or value slot of a returned            *)
(* VariableBinding leaves every table entry as it was.                     *)
(***************************************************************************)
C6_ResultsIndependent ==
    [][/\ pc' = "return" =>
             \A i \in 1..Len(results') :
                /\ results'[i] \notin TableRefs
                /\ \A j \in 1..Len(prev_results') : results'[i] # prev_results'[j]
       /\ (pc = "return" /\ pc' = "caller_wrote") =>
             \A k \in 1..Len(vbs) : heap'[vbs[k]] = heap[vbs[k]]]_vars

(***************************************************************************)
(* C10: no step of the resolver changes the request: variable_bindings     *)
(* keeps its length and slots, and every request VB keeps its oid and      *)
(* value; and a second resolution of the same request against the same     *)
(* table returns bindings equal to those of the first.                     *)
(***************************************************************************)
C10_RequestUnchanged ==
    [][/\ Resolving =>
             /\ req' = req
             /\ \A i \in 1..K :
                   heap'[req.variable_bindings[i]] = heap[req.variable_bindings[i]]
       /\ (pc' = "return" /\ calls' = 2) =>
             Contents(results)' = Contents(prev_results)']_vars

C10_Witness ==
    /\ pc = "return"
    /\ calls = 2
    /\ req.context = GET_BULK_REQUEST
    /\ req.max_repetitions = 2
    /\ TailLen = 2
    /\ \A j \in 1..TailLen :
          heap[tail_req_vbs[j]].oid # ReqOid(HeadLen + j)
    /\ Len(prev_results) = 4

(***************************************************************************)
(* C7, as claimed: with a supported version and a decodable community,     *)
(* every inner tag other than 0xA0, 0xA1 and 0xA5 ends decode_request with *)
(* the unsupported-PDU error and no request.                               *)
(***************************************************************************)
C7_UnsupportedPdu ==
    (/\ pc = "decoded"
     /\ data.version \in {0, 1}
     /\ data.community \in { <<112>>, <<195, 169>> }
     /\ data.tag \notin {160, 161, 165}) =>
        (error = UNSUPPORTED_PDU /\ decoded = NoRequest)

(***************************************************************************)
(* C8, as claimed: a version integer other than 0 and 1 ends               *)
(* decode_request with the unsupported-version error ("SNMP Version code   *)
(* ... is not implemented") and no request.                                *)
(***************************************************************************)
C8_UnsupportedVersion ==
    (pc = "decoded" /\ data.version \notin {0, 1}) =>
        (error = UNSUPPORTED_VERSION /\ decoded = NoRequest)

(***************************************************************************)
(* C9, as claimed: community octets that are not valid UTF-8 do not make   *)
(* decode_request fail; the request returned carries the raw octets.       *)
(***************************************************************************)
C9_CommunityRawBytes ==
    (/\ pc = "decoded"
     /\ data.version \in {0, 1}
     /\ data.tag \in {160, 161, 165}
     /\ data.community \in { <<255>>, <<195>> }) =>
        (error = NoError /\ decoded.community = data.community)

====
